---- MODULE Spec2Model ----
(***************************************************************************)
(* A model of src/src/dashboard_builder.py: the DashboardBuilder class     *)
(* over its SQLite store (tables dashboards and metrics).                  *)
(*                                                                         *)
(* Every public method is one action of the same name; the value the call  *)
(* returns (or the exception it raises) is recorded in ret.  add_panel is  *)
(* additionally modelled statement by statement for concurrent callers.    *)
(*                                                                         *)
(* Strings that the code builds by concatenation are sequences of their    *)
(* parts; md5(...).hexdigest()[:8] is modelled as a collision-free tag of  *)
(* its input; JSON text of a list is the token sequence "[" x "," y "]".   *)
(* The columns description, refresh_interval and created_at are written by *)
(* create/import and read only by export; created_at is not modelled.      *)
(***************************************************************************)
EXTENDS Integers, Sequences, FiniteSets, TLC

VARIABLES
    db_path,      \* self.db_path
    dashboards,   \* rows of table dashboards
    metrics,      \* rows of table metrics
    now,          \* the value datetime.now() returns
    ret,          \* the last call: its arguments and what it returned or raised
    calls         \* concurrent add_panel callers: position and locals

vars == <<db_path, dashboards, metrics, now, ret, calls>>

(***************************** bounds and inputs ***************************)
MaxTime == 1
MaxPanels == 1
MaxVariables == 1
MaxRangeLen == 2
MaxSamples == 2
MaxStatSamples == 3

\* hashlib.md5(s.encode()).hexdigest()[:8], s given as the sequence of its parts
md5(s) == <<"md5", s>>

None == -1
NoRow == [id |-> <<"none">>]
DbPaths == {":memory:", "dashboards.db"}
Titles == {"A", "B"}
TagsOf(title) == IF title = "A" THEN <<>> ELSE <<"prod", "eu">>
PanelTitles == {"cpu"}
ConcurrentTitles == {"cpu", "mem"}
MetricNames == {"cpu"}
Values == {1, 2}
StatValues == {1, 2, 3}
Ramp == <<10, 9, 8, 7, 6, 5, 4, 3, 2, 1>>
LabelArgs == {<<>>, <<<<"a", "1">>, <<"b", "2">>>>, <<<<"b", "2">>, <<"a", "1">>>>}
MissingId == md5(<<"Z">>)
VariableNames == {"env"}
Procs == {1, 2}

(******************************* primitives ********************************)
\* json.dumps of a list: "[" item "," item ... "]"
json_dumps(l) ==
    <<"[">> \o [i \in 1..(IF Len(l) = 0 THEN 0 ELSE 2 * Len(l) - 1) |->
                  IF i % 2 = 1 THEN l[(i + 1) \div 2] ELSE ","] \o <<"]">>

\* json.loads of the text of a list
json_loads(s) == [i \in 1..((Len(s) - 1) \div 2) |-> s[2 * i]]

\* json.dumps / json.loads of a document object
json_dumps_obj(d) == <<"{", d, "}">>
json_loads_obj(s) == s[2]

\* dict.get(key, default)
dict_get(data, key, default) == IF key \in DOMAIN data THEN data[key] ELSE default

\* the sqlite3.connect(self.db_path) of every method: a ":memory:" path opens a
\* fresh empty database on each connection, so the tables _init_db created on
\* its own connection are not there; a file path opens the stored tables
TablesExist == db_path # ":memory:"

OperationalError(call) == call @@ [error |-> "OperationalError", value |-> None]
IntegrityError(call) == call @@ [error |-> "IntegrityError", value |-> None]
Returns(call, v) == call @@ [error |-> "none", value |-> v]

(***************************** dashboard store *****************************)
Position == [x |-> 0, y |-> 0, w |-> 12, h |-> 8]

\* asdict(Panel(...)) as add_panel builds it
PanelOf(dashboard_id, title, panel_type, query) ==
    [id |-> md5(<<dashboard_id, "/", title>>), title |-> title, type |-> panel_type,
     datasource |-> "prometheus", query |-> query, options |-> <<>>,
     position |-> Position]

\* asdict(Variable(...)) as add_variable builds it
VariableOf(name, query, var_type) ==
    [name |-> name, type |-> var_type, query |-> query, current_value |-> ""]

\* SELECT ... FROM dashboards WHERE id = ?  (fetchone; NoRow when there is none)
RowById(dashboard_id) ==
    IF \E d \in dashboards : d.id = dashboard_id
    THEN CHOOSE d \in dashboards : d.id = dashboard_id
    ELSE NoRow

\* the Dashboard dataclass value create_dashboard and import_json return
DashboardObj(id, uid, title, description, tags, refresh, time_range) ==
    [id |-> id, uid |-> uid, title |-> title, description |-> description,
     tags |-> tags, panels |-> <<>>, variables |-> <<>>,
     refresh_interval |-> refresh, time_range |-> time_range]

\* the row create_dashboard inserts
CreateRow(d) ==
    [id |-> d.id, uid |-> d.uid, title |-> d.title, description |-> d.description,
     tags |-> json_dumps(d.tags), panels |-> json_dumps(<<>>),
     variables |-> json_dumps(<<>>), refresh_interval |-> d.refresh_interval,
     time_range |-> d.time_range]

\* faulty variant: a schema without the UNIQUE constraint on uid
InsertConflictsIdOnly(row) == {d \in dashboards : d.id = row.id}

\* INSERT INTO dashboards: id PRIMARY KEY and uid UNIQUE must both be free
InsertConflicts(row) == {d \in dashboards : d.id = row.id \/ d.uid = row.uid}

create_dashboard(title, tags) ==
    LET call == [op |-> "create_dashboard", title |-> title, tags |-> tags]
        dashboard == DashboardObj(md5(<<title, now>>), md5(<<title>>), title, "",
                                  tags, "30s", <<"1h">>)
        row == CreateRow(dashboard)
    IN  /\ IF ~TablesExist
           THEN /\ ret' = OperationalError(call)
                /\ UNCHANGED dashboards
           ELSE IF InsertConflicts(row) # {}
           THEN /\ ret' = IntegrityError(call)
                /\ UNCHANGED dashboards
           ELSE /\ dashboards' = dashboards \cup {row}
                /\ ret' = Returns(call, dashboard)
        /\ UNCHANGED <<db_path, metrics, now, calls>>

\* UPDATE dashboards SET panels = ? WHERE id = ?
UpdatePanels(dashboard_id, panels) ==
    {IF d.id = dashboard_id THEN [d EXCEPT !.panels = json_dumps(panels)] ELSE d :
        d \in dashboards}

\* UPDATE dashboards SET variables = ? WHERE id = ?
UpdateVariables(dashboard_id, variables) ==
    {IF d.id = dashboard_id THEN [d EXCEPT !.variables = json_dumps(variables)] ELSE d :
        d \in dashboards}

add_panel(dashboard_id, title, panel_type, query) ==
    LET call == [op |-> "add_panel", dashboard_id |-> dashboard_id, title |-> title]
        panel == PanelOf(dashboard_id, title, panel_type, query)
        result == RowById(dashboard_id)
    IN  /\ IF ~TablesExist
           THEN /\ ret' = OperationalError(call)
                /\ UNCHANGED dashboards
           ELSE IF result # NoRow
           THEN /\ Len(json_loads(result.panels)) < MaxPanels
                /\ dashboards' = UpdatePanels(dashboard_id,
                                              Append(json_loads(result.panels), panel))
                /\ ret' = Returns(call, panel)
           ELSE /\ ret' = Returns(call, panel)
                /\ UNCHANGED dashboards
        /\ UNCHANGED <<db_path, metrics, now, calls>>

add_variable(dashboard_id, name, query) ==
    LET call == [op |-> "add_variable", dashboard_id |-> dashboard_id, name |-> name]
        variable == VariableOf(name, query, "query")
        result == RowById(dashboard_id)
    IN  /\ IF ~TablesExist
           THEN /\ ret' = OperationalError(call)
                /\ UNCHANGED dashboards
           ELSE IF result # NoRow
           THEN /\ Len(json_loads(result.variables)) < MaxVariables
                /\ dashboards' = UpdateVariables(dashboard_id,
                                     Append(json_loads(result.variables), variable))
                /\ ret' = Returns(call, variable)
           ELSE /\ ret' = Returns(call, variable)
                /\ UNCHANGED dashboards
        /\ UNCHANGED <<db_path, metrics, now, calls>>

\* the document export_json builds from a row
ExportDocument(row) ==
    [id |-> row.id, uid |-> row.uid, title |-> row.title,
     description |-> row.description,
     tags |-> json_loads(row.tags), panels |-> json_loads(row.panels),
     variables |-> json_loads(row.variables), refresh |-> row.refresh_interval,
     time |-> [from |-> <<"now-">> \o row.time_range, to |-> "now"]]

\* the string export_json returns when the tables are there
ExportText(dashboard_id) ==
    LET row == RowById(dashboard_id)
    IN  IF row = NoRow THEN json_dumps_obj(<<>>) ELSE json_dumps_obj(ExportDocument(row))

export_json(dashboard_id) ==
    LET call == [op |-> "export_json", dashboard_id |-> dashboard_id]
    IN  /\ ret' = IF ~TablesExist THEN OperationalError(call)
                  ELSE Returns(call, ExportText(dashboard_id))
        /\ UNCHANGED <<db_path, dashboards, metrics, now, calls>>

\* the Dashboard import_json constructs from the parsed document
ImportDashboard(data) ==
    LET dashboard_id == md5(<<dict_get(data, "title", "")>>)
    IN  DashboardObj(dashboard_id, dict_get(data, "uid", dashboard_id),
                     dict_get(data, "title", ""), dict_get(data, "description", ""),
                     dict_get(data, "tags", <<>>), dict_get(data, "refresh", "30s"),
                     dict_get(dict_get(data, "time", <<>>), "from", <<"1h">>))

\* faulty variant: import writes empty panel and variable lists, as create does
ImportRowEmptyLists(data) ==
    LET d == ImportDashboard(data)
    IN  [id |-> d.id, uid |-> d.uid, title |-> d.title, description |-> d.description,
         tags |-> json_dumps(d.tags), panels |-> json_dumps(<<>>),
         variables |-> json_dumps(<<>>),
         refresh_interval |-> d.refresh_interval, time_range |-> d.time_range]

\* the row import_json writes
ImportRow(data) ==
    LET d == ImportDashboard(data)
    IN  [id |-> d.id, uid |-> d.uid, title |-> d.title, description |-> d.description,
         tags |-> json_dumps(d.tags),
         panels |-> json_dumps(dict_get(data, "panels", <<>>)),
         variables |-> json_dumps(dict_get(data, "variables", <<>>)),
         refresh_interval |-> d.refresh_interval, time_range |-> d.time_range]

\* INSERT OR REPLACE INTO dashboards: every row that conflicts on the PRIMARY KEY
\* id or on the UNIQUE uid is deleted, then the new row is inserted
InsertOrReplace(row) == (dashboards \ InsertConflicts(row)) \cup {row}

import_json(json_str) ==
    LET call == [op |-> "import_json", json_str |-> json_str]
        data == json_loads_obj(json_str)
        dashboard == ImportDashboard(data)
    IN  /\ Len(dashboard.time_range) <= MaxRangeLen
        /\ IF ~TablesExist
           THEN /\ ret' = OperationalError(call)
                /\ UNCHANGED dashboards
           ELSE /\ dashboards' = InsertOrReplace(ImportRow(data))
                /\ ret' = Returns(call, dashboard)
        /\ UNCHANGED <<db_path, metrics, now, calls>>

\* time passes between two calls
Tick ==
    /\ now < MaxTime
    /\ now' = now + 1
    /\ UNCHANGED <<db_path, dashboards, metrics, ret, calls>>

\* a document that no export of this store produced: it borrows the uid of
\* title "A", and its panel type is outside PanelType
ExternalDocuments ==
    {[title |-> "B", uid |-> md5(<<"A">>),
      panels |-> <<[id |-> md5(<<"x">>), title |-> "ext", type |-> "piechart",
                    datasource |-> "prometheus", query |-> "up", options |-> <<>>,
                    position |-> Position]>>,
      variables |-> <<>>]}

DashboardIds == {d.id : d \in dashboards} \cup {MissingId}

Init ==
    /\ db_path \in DbPaths
    /\ dashboards = {}
    /\ metrics = {}
    /\ now = 0
    /\ ret = [op |-> "init"]
    /\ calls = [p \in Procs |-> [pc |-> "idle"]]

NextDashboards ==
    \/ Tick
    \/ \E title \in Titles : create_dashboard(title, TagsOf(title))
    \/ \E id \in DashboardIds, title \in PanelTitles :
          add_panel(id, title, "timeseries", "up")
    \/ \E id \in DashboardIds, name \in VariableNames : add_variable(id, name, "up")
    \/ \E id \in DashboardIds : export_json(id)
    \/ \E d \in dashboards : import_json(ExportText(d.id))
    \/ \E e \in ExternalDocuments : import_json(json_dumps_obj(e))

SpecDashboards == Init /\ [][NextDashboards]_vars

(******************************* metric store ******************************)
\* json.dumps of a dict of strings, its items in the dict's insertion order
\* (no sort_keys); the dict is the sequence of its <<key, value>> items
RECURSIVE DictItems(_)
DictItems(d) ==
    IF d = <<>> THEN <<>>
    ELSE <<d[1][1], ":", d[1][2]>> \o (IF Len(d) > 1 THEN <<",">> ELSE <<>>)
         \o DictItems(Tail(d))

json_dumps_dict(d) == <<"{">> \o DictItems(d) \o <<"}">>

\* the Metric dataclass value push_metric returns
MetricObj(name, labels, value, timestamp) ==
    [name |-> name, labels |-> labels, value |-> value, timestamp |-> timestamp]

\* UNIQUE(name, labels, timestamp)
SameKey(r, q) == r.name = q.name /\ r.labels = q.labels /\ r.timestamp = q.timestamp

\* faulty variant: INSERT OR REPLACE, the last write for a key wins
InsertOrReplaceMetric(row) == {q \in metrics : ~SameKey(q, row)} \cup {row}

\* INSERT OR IGNORE INTO metrics: a row whose key is stored is not written.
\* The timestamp column holds isoformat() text, which orders as the instants do,
\* and is modelled by the instant.
InsertOrIgnore(row) ==
    IF \E q \in metrics : SameKey(q, row) THEN metrics ELSE metrics \cup {row}

push_metric(name, value, labels) ==
    LET call == [op |-> "push_metric", name |-> name, pushed |-> value,
                 labels |-> labels]
        metric == MetricObj(name, labels, value, now)
        row == [name |-> name, labels |-> json_dumps_dict(labels), value |-> value,
                timestamp |-> metric.timestamp]
    IN  /\ Cardinality(InsertOrIgnore(row)) <= MaxSamples
        /\ IF ~TablesExist
           THEN /\ ret' = OperationalError(call)
                /\ UNCHANGED metrics
           ELSE /\ metrics' = InsertOrIgnore(row)
                /\ ret' = Returns(call, metric)
        /\ UNCHANGED <<db_path, dashboards, now, calls>>

\* ORDER BY timestamp ASC over a set of rows
RECURSIVE OrderByTimestamp(_)
OrderByTimestamp(rows) ==
    IF rows = {} THEN <<>>
    ELSE LET r == CHOOSE r \in rows : \A q \in rows : r.timestamp <= q.timestamp
         IN  <<r>> \o OrderByTimestamp(rows \ {r})

\* the rows the two SELECT statements of query_metrics match
SelectRows(name, labels_json, from_ts, to_ts) ==
    IF from_ts # None /\ to_ts # None
    THEN {r \in metrics : /\ r.name = name /\ r.labels = labels_json
                          /\ from_ts <= r.timestamp /\ r.timestamp <= to_ts}
    ELSE {r \in metrics : r.name = name /\ r.labels = labels_json}

\* the list query_metrics returns when the tables are there
\* [(r[0], r[1]) for r in results]
RowPairs(results) ==
    [i \in 1..Len(results) |-> <<results[i].timestamp, results[i].value>>]

QueryResult(name, labels, from_ts, to_ts) ==
    RowPairs(OrderByTimestamp(SelectRows(name, json_dumps_dict(labels), from_ts, to_ts)))

query_metrics(name, labels, from_ts, to_ts) ==
    LET call == [op |-> "query_metrics", name |-> name, labels |-> labels,
                 from_ts |-> from_ts, to_ts |-> to_ts]
    IN  /\ ret' = IF ~TablesExist THEN OperationalError(call)
                  ELSE Returns(call, QueryResult(name, labels, from_ts, to_ts))
        /\ UNCHANGED <<db_path, dashboards, metrics, now, calls>>

\* SELECT value ... ORDER BY timestamp DESC LIMIT 1; None when there is no row
CurrentValue(name, labels) ==
    LET rows == {r \in metrics : r.name = name /\ r.labels = json_dumps_dict(labels)}
    IN  IF rows = {} THEN None
        ELSE (CHOOSE r \in rows : \A q \in rows : q.timestamp <= r.timestamp).value

get_current_value(name, labels) ==
    LET call == [op |-> "get_current_value", name |-> name, labels |-> labels]
    IN  /\ ret' = IF ~TablesExist THEN OperationalError(call)
                  ELSE Returns(call, CurrentValue(name, labels))
        /\ UNCHANGED <<db_path, dashboards, metrics, now, calls>>

\* faulty variant: the values are left in query order
unsorted(values) == values

\* sorted(values)
RECURSIVE sorted(_)
sorted(values) ==
    IF values = <<>> THEN <<>>
    ELSE LET i == CHOOSE i \in 1..Len(values) :
                      \A j \in 1..Len(values) : values[i] <= values[j]
         IN  <<values[i]>> \o
             sorted([k \in 1..(Len(values) - 1) |-> IF k < i THEN values[k] ELSE values[k + 1]])

\* min(values), max(values)
min(values) == CHOOSE v \in {values[i] : i \in 1..Len(values)} :
                  \A j \in 1..Len(values) : v <= values[j]
max(values) == CHOOSE v \in {values[i] : i \in 1..Len(values)} :
                  \A j \in 1..Len(values) : values[j] <= v

RECURSIVE sum(_)
sum(values) == IF values = <<>> THEN 0 ELSE Head(values) + sum(Tail(values))

\* int(len(sorted_values) * 0.95): the double product truncated; it equals
\* floor(95 * n / 100) for every n below 100000
P95Index(n) == (n * 95) \div 100

\* the dict get_stats builds from a non-empty list of (timestamp, value);
\* sequences are 1-based, so index p95_idx is element p95_idx + 1;
\* statistics.mean is kept as the fraction num/den
StatsOf(name, labels, rows) ==
    LET values == [i \in 1..Len(rows) |-> rows[i][2]]
        sorted_values == sorted(values)
        p95_idx == P95Index(Len(sorted_values))
    IN  [name |-> name, labels |-> labels,
         min |-> min(values),
         max |-> max(values),
         avg |-> [num |-> sum(values), den |-> Len(values)],
         p95 |-> IF p95_idx < Len(sorted_values) THEN sorted_values[p95_idx + 1]
                 ELSE sorted_values[Len(sorted_values)],
         count |-> Len(values)]

\* get_stats passes from_ts on and no to_ts
StatsRows(name, labels, from_ts) == QueryResult(name, labels, from_ts, None)

get_stats(name, labels, from_ts) ==
    LET call == [op |-> "get_stats", name |-> name, labels |-> labels,
                 from_ts |-> from_ts]
        rows == StatsRows(name, labels, from_ts)
    IN  /\ ret' = IF ~TablesExist THEN OperationalError(call)
                  ELSE IF rows = <<>> THEN Returns(call, [error |-> "No data found"])
                  ELSE Returns(call, StatsOf(name, labels, rows))
        /\ UNCHANGED <<db_path, dashboards, metrics, now, calls>>

TimeArgs == {None} \cup (0..MaxTime)

NextMetrics ==
    \/ Tick
    \/ \E name \in MetricNames, value \in Values, labels \in LabelArgs :
          push_metric(name, value, labels)
    \/ \E name \in MetricNames, labels \in LabelArgs, from_ts \in TimeArgs,
          to_ts \in TimeArgs : query_metrics(name, labels, from_ts, to_ts)
    \/ \E name \in MetricNames, labels \in LabelArgs : get_current_value(name, labels)
    \/ \E name \in MetricNames, labels \in LabelArgs, from_ts \in TimeArgs :
          get_stats(name, labels, from_ts)

SpecMetrics == Init /\ [][NextMetrics]_vars

(******************* add_panel, statement by statement *********************)
\* Each caller runs add_panel on a connection of its own; nothing holds a
\* transaction from the SELECT to the UPDATE.
\* lines 180-197: build the panel, connect, SELECT panels, fetchone
add_panel_select(p, dashboard_id, title) ==
    LET panel == PanelOf(dashboard_id, title, "timeseries", "up")
        result == RowById(dashboard_id)
    IN  /\ calls[p].pc \in {"idle", "done", "raised"}
        /\ calls' = [calls EXCEPT ![p] =
              IF ~TablesExist
              THEN [pc |-> "raised", dashboard_id |-> dashboard_id, panel |-> panel,
                    found |-> FALSE, read |-> <<>>]
              ELSE IF result # NoRow
              THEN [pc |-> "update", dashboard_id |-> dashboard_id, panel |-> panel,
                    found |-> TRUE, read |-> json_loads(result.panels)]
              ELSE [pc |-> "done", dashboard_id |-> dashboard_id, panel |-> panel,
                    found |-> FALSE, read |-> <<>>]]
        /\ (TablesExist /\ result # NoRow) => Len(json_loads(result.panels)) < MaxPanels
        /\ UNCHANGED <<db_path, dashboards, metrics, now, ret>>

\* variant: the UPDATE appends to the list stored at the time of the UPDATE
PanelsToStoreReread(p) ==
    Append(json_loads(RowById(calls[p].dashboard_id).panels), calls[p].panel)

\* the list the UPDATE of caller p stores: the list it read, with its panel appended
PanelsToStore(p) == Append(calls[p].read, calls[p].panel)

\* lines 199-205: append to the list read, UPDATE, commit, close, return panel
add_panel_update(p) ==
    /\ calls[p].pc = "update"
    /\ dashboards' = UpdatePanels(calls[p].dashboard_id, PanelsToStore(p))
    /\ calls' = [calls EXCEPT ![p].pc = "done"]
    /\ UNCHANGED <<db_path, metrics, now, ret>>

NextConcurrent ==
    \/ create_dashboard("A", TagsOf("A"))
    \/ \E p \in Procs, id \in DashboardIds, title \in ConcurrentTitles :
          add_panel_select(p, id, title)
    \/ \E p \in Procs : add_panel_update(p)

SpecConcurrent == Init /\ [][NextConcurrent]_vars

(************************ get_stats over given stores **********************)
\* the store after pushing the values of a list, one per instant, under one key
StoreOf(values) ==
    {[name |-> "cpu", labels |-> json_dumps_dict(<<>>), value |-> values[i],
      timestamp |-> i - 1] : i \in 1..Len(values)}

StatInputs ==
    {Ramp} \cup UNION {[1..n -> StatValues] : n \in 0..MaxStatSamples}

InitStats ==
    /\ db_path \in DbPaths
    /\ dashboards = {}
    /\ \E values \in StatInputs : metrics = StoreOf(values) /\ now = Len(values)
    /\ ret = [op |-> "init"]
    /\ calls = [p \in Procs |-> [pc |-> "idle"]]

NextStats ==
    \E name \in MetricNames, from_ts \in {None, 0, 1} : get_stats(name, <<>>, from_ts)

SpecStats == InitStats /\ [][NextStats]_vars

(********************* create and push on a new store **********************)
NextCreatePush ==
    \/ Tick
    \/ \E title \in Titles : create_dashboard(title, TagsOf(title))
    \/ \E name \in MetricNames, value \in Values, labels \in LabelArgs :
          push_metric(name, value, labels)

SpecCreatePush == Init /\ [][NextCreatePush]_vars

(********************************* claims **********************************)
UniqueKeys == \A r, q \in metrics : SameKey(r, q) => r = q

\* C1: the metric store holds at most one sample per (name, serialized labels,
\* timestamp), and the range query for a stored key returns exactly one sample
\* for its timestamp; a push whose key is already stored returns normally and
\* leaves the store unchanged (the first value is kept).
C1_InsertOrIgnore ==
    /\ [](/\ UniqueKeys
          /\ \A r \in metrics, labels \in LabelArgs :
                json_dumps_dict(labels) = r.labels =>
                   \E result \in {QueryResult(r.name, labels, None, None)} :
                      /\ Cardinality({i \in 1..Len(result) :
                                         result[i][1] = r.timestamp}) = 1
                      /\ \E i \in 1..Len(result) : result[i] = <<r.timestamp, r.value>>)
    /\ [][(/\ ret'.op = "push_metric"
            /\ push_metric(ret'.name, ret'.pushed, ret'.labels)
            /\ \E q \in metrics : /\ q.name = ret'.name
                                  /\ q.labels = json_dumps_dict(ret'.labels)
                                  /\ q.timestamp = now)
           => (metrics' = metrics /\ ret'.error = "none")
          ]_vars

\* C1 witness: a push returned normally while the stored sample of its key
\* holds another, earlier written, value
C1_Witness ==
    /\ ret.op = "push_metric"
    /\ ret.error = "none"
    /\ \E r \in metrics : /\ r.name = ret.name
                          /\ r.labels = json_dumps_dict(ret.labels)
                          /\ r.timestamp = ret.value.timestamp
                          /\ r.value # ret.value.value

SamePairs(l1, l2) == {l1[i] : i \in 1..Len(l1)} = {l2[i] : i \in 1..Len(l2)}

\* C2: a sample pushed with one label mapping is returned by query_metrics and
\* get_current_value called with any mapping of the same key/value pairs,
\* whatever the insertion order.
C2_LabelOrderIndependent ==
    \A name \in MetricNames, l1 \in LabelArgs, l2 \in LabelArgs :
        SamePairs(l1, l2) =>
            \A r \in metrics :
                (r.name = name /\ r.labels = json_dumps_dict(l1)) =>
                    /\ \E i \in 1..Len(QueryResult(name, l2, None, None)) :
                          QueryResult(name, l2, None, None)[i] = <<r.timestamp, r.value>>
                    /\ CurrentValue(name, l2) # None

\* C3: importing the document export_json produced for a stored dashboard D
\* stores a dashboard with D's title, tags, panels and variables, and the export
\* of the imported dashboard has time.to = "now".
C3_ExportImportRoundTrip ==
    /\ [](\A d \in dashboards : json_loads_obj(ExportText(d.id)).time.to = "now")
    /\ [][(/\ ret'.op = "import_json"
            /\ import_json(ret'.json_str)
            /\ ret'.error = "none")
           => \A d \in dashboards :
                 ret'.json_str = ExportText(d.id) =>
                    \E n \in dashboards' :
                       /\ n.id = ret'.value.id
                       /\ n.title = d.title
                       /\ n.tags = d.tags
                       /\ n.panels = d.panels
                       /\ n.variables = d.variables
                       /\ json_loads(n.tags) = json_loads(d.tags)
                       /\ json_loads(n.panels) = json_loads(d.panels)
                       /\ json_loads(n.variables) = json_loads(d.variables)
          ]_vars

\* C3 witness: the export of a created dashboard with tags, a panel and a
\* variable was imported and is stored under the imported id
C3_Witness ==
    /\ ret.op = "import_json"
    /\ ret.error = "none"
    /\ LET data == json_loads_obj(ret.json_str)
       IN  /\ "id" \in DOMAIN data
           /\ data.id # ret.value.id
           /\ data.tags # <<>>
           /\ data.panels # <<>>
           /\ data.variables # <<>>
           /\ \E n \in dashboards : /\ n.id = ret.value.id
                                    /\ json_loads(n.panels) = data.panels
                                    /\ json_loads(n.variables) = data.variables

\* C4: over the n >= 1 samples its query loads, get_stats returns count = n,
\* min and max the smallest and largest value, and p95 the element of rank
\* min(floor(0.95 n), n - 1) (zero-based) of the ascending values; for the
\* values 1..10 that is min 1, max 10, p95 10.
C4_NearestRankStats ==
    (ret.op = "get_stats" /\ ret.error = "none") =>
        LET M == SelectRows(ret.name, json_dumps_dict(ret.labels), ret.from_ts, None)
            n == Cardinality(M)
            k == IF (95 * n) \div 100 < n - 1 THEN (95 * n) \div 100 ELSE n - 1
            st == ret.value
        IN  IF n = 0 THEN DOMAIN st = {"error"}
            ELSE /\ st.count = n
                 /\ \E r \in M : r.value = st.min
                 /\ \A r \in M : st.min <= r.value
                 /\ \E r \in M : r.value = st.max
                 /\ \A r \in M : r.value <= st.max
                 /\ \E r \in M : r.value = st.p95
                 /\ Cardinality({r \in M : r.value < st.p95}) <= k
                 /\ Cardinality({r \in M : r.value <= st.p95}) > k
                 /\ ({r.value : r \in M} = 1..10 /\ n = 10) =>
                        (st.min = 1 /\ st.max = 10 /\ st.p95 = 10)

\* C4 witness: statistics over the ten samples 1..10, which were not pushed in
\* ascending order
C4_Witness ==
    /\ ret.op = "get_stats"
    /\ ret.error = "none"
    /\ Cardinality(metrics) = 10
    /\ {r.value : r \in metrics} = 1..10
    /\ \E r, q \in metrics : r.timestamp < q.timestamp /\ r.value > q.value
    /\ ret.value.count = 10
    /\ ret.value.p95 = 10

\* C5: get_stats called with a start bound from_ts computes over the samples
\* of the key at or after from_ts only.
C5_StatsFromStart ==
    (ret.op = "get_stats" /\ ret.error = "none" /\ ret.from_ts # None) =>
        LET M == {r \in metrics : /\ r.name = ret.name
                                  /\ r.labels = json_dumps_dict(ret.labels)
                                  /\ r.timestamp >= ret.from_ts}
            st == ret.value
        IN  IF M = {} THEN DOMAIN st = {"error"}
            ELSE /\ "count" \in DOMAIN st
                 /\ st.count = Cardinality(M)
                 /\ \E r \in M : r.value = st.min
                 /\ \E r \in M : r.value = st.max
                 /\ \E r \in M : r.value = st.p95

UidUnique == \A d, e \in dashboards : d.uid = e.uid => d = e

\* C6: create derives the uid from the title alone; a create whose uid is
\* already stored raises the constraint failure and leaves the dashboards
\* unchanged; no two stored dashboards share a uid.
C6_UidConflict ==
    /\ []UidUnique
    /\ [][(ret'.op = "create_dashboard" /\ create_dashboard(ret'.title, ret'.tags))
           => (/\ (\E d \in dashboards : d.uid = md5(<<ret'.title>>)) =>
                     (ret'.error = "IntegrityError" /\ dashboards' = dashboards)
               /\ ret'.error = "none" =>
                     (/\ ret'.value.uid = md5(<<ret'.title>>)
                      /\ \E d \in dashboards' :
                            d.id = ret'.value.id /\ d.uid = ret'.value.uid))
          ]_vars

\* C6 witness: a create was refused while a dashboard of the same title, made
\* at another instant (so under another id), is stored with that uid
C6_Witness ==
    /\ ret.op = "create_dashboard"
    /\ ret.error = "IntegrityError"
    /\ \E d \in dashboards : /\ d.title = ret.title
                             /\ d.uid = md5(<<ret.title>>)
                             /\ d.id # md5(<<ret.title, now>>)
                             /\ d.id # md5(<<ret.title>>)

\* C7: on a store constructed with ":memory:", create_dashboard returns a
\* Dashboard with the given title and push_metric returns a Metric with the
\* given name and value; neither raises.
C7_MemoryStoreWorks ==
    db_path = ":memory:" =>
        /\ ret.op = "create_dashboard" =>
              (ret.error = "none" /\ ret.value.title = ret.title)
        /\ ret.op = "push_metric" =>
              (ret.error = "none" /\ ret.value.name = ret.name
               /\ ret.value.value = ret.pushed)

\* C8: when two add_panel calls on the same stored dashboard have both read the
\* same panel list and both returned, the stored list is that list plus exactly
\* one of the two panels: one append is lost.
C8_LostUpdate ==
    \A p \in Procs, q \in Procs :
        (/\ p # q
         /\ calls[p].pc = "done" /\ calls[q].pc = "done"
         /\ calls[p].found /\ calls[q].found
         /\ calls[p].dashboard_id = calls[q].dashboard_id
         /\ calls[p].read = calls[q].read)
        => LET stored == json_loads(RowById(calls[p].dashboard_id).panels)
           IN  /\ Len(stored) = Len(calls[p].read) + 1
               /\ \/ stored = Append(calls[p].read, calls[p].panel)
                  \/ stored = Append(calls[q].read, calls[q].panel)

\* C8 witness: both calls returned their panels, the panels differ, and the
\* stored list holds only one of them
C8_Witness ==
    \E p \in Procs, q \in Procs :
        /\ p # q
        /\ calls[p].pc = "done" /\ calls[q].pc = "done"
        /\ calls[p].found /\ calls[q].found
        /\ calls[p].dashboard_id = calls[q].dashboard_id
        /\ calls[p].panel # calls[q].panel
        /\ LET stored == json_loads(RowById(calls[p].dashboard_id).panels)
           IN  /\ \E i \in 1..Len(stored) : stored[i] = calls[q].panel
               /\ \A i \in 1..Len(stored) : stored[i] # calls[p].panel

\* C9: the set of stored dashboard ids never shrinks.
C9_NoDashboardRemoved ==
    [][{d.id : d \in dashboards} \subseteq {d.id : d \in dashboards'}]_vars

\* C10: the Dashboard import_json returns carries the document's panels and
\* variables, as the row it persists does.
C10_ImportReturnsPanels ==
    (ret.op = "import_json" /\ ret.error = "none") =>
        LET data == json_loads_obj(ret.json_str)
        IN  /\ ret.value.panels = dict_get(data, "panels", <<>>)
            /\ ret.value.variables = dict_get(data, "variables", <<>>)
            /\ \E n \in dashboards :
                  /\ n.id = ret.value.id
                  /\ json_loads(n.panels) = ret.value.panels
                  /\ json_loads(n.variables) = ret.value.variables
====
